---- MODULE Spec2Model ----
(***************************************************************************)
(* ToN-Simple-Save-Tool, src-tauri/src/lib.rs: the log-line state machine  *)
(* (process_log_line), the clipboard notifier (maybe_copy_latest_code) and *)
(* the locking discipline of the polling loop and the foreground commands. *)
(***************************************************************************)
EXTENDS Integers, Sequences, FiniteSets, TLC

\* Option<String>::None; an Option of anything else is Nothing or Some(x).
None == "<none>"
Nothing == <<>>
Some(x) == <<x>>

\* lib.rs:24
MAX_HISTORY == 10

(***************************************************************************)
(* Bounds of the model.                                                    *)
(***************************************************************************)
\* Most signals a single input line carries.
MaxSignals == 2
\* Rounds tallied before the model stops feeding round-end lines.
MaxTally == 2
\* Code lines fed before the model stops feeding code lines.
MaxAppends == 2
\* Ticks of the polling loop.
MaxTicks == 2
\* Lines one tick reads.
MaxTickLines == 2
\* Foreground commands invoked.
MaxCalls == 1
\* Bytes a log file grows to.
MaxBytes == 2
\* I/O faults the environment injects.
MaxFaults == 2
\* Sidecar processes spawned.
MaxSpawns == 2
\* Lines written to one sidecar process.
MaxWire == 2
\* Lines a tick reads after a burst of the log writer.
MaxBurstLines == 3

(***************************************************************************)
(* Input alphabet: a log line is what the eight regexes of LogPatterns and *)
(* the WORLD_ID substring test see of it.                                  *)
(***************************************************************************)
MapNames == {"Facility"}
RoundTypes == {"Classic", "Bloodbath"}
\* The three ids of a "Killers have been set - X X X" line, as parsed.
KillerTriples == {<<3, 0, 7>>, <<0, 0, 0>>, <<1, 2, 3>>}
\* Sample code lines: the captured token and the line's leading
\* whitespace-delimited tokens (only the first two are read).
CodeLines ==
    { [code |-> "12_34_56", head |-> <<"2024-01-01", "20:00:00">>],
      [code |-> "7,8", head |-> <<"[START]7,8[END]">>] }

RoundStartCaps == [map_name : MapNames, round_type : RoundTypes]
KillersCaps == [ids : KillerTriples, round_type : {None, "Bloodbath"}]

B2N(b) == IF b THEN 1 ELSE 0

\* Number of the eight patterns that match the line.
SignalCount(l) ==
    B2N(l.round_start # Nothing) + B2N(l.killers # Nothing) + B2N(l.death)
    + B2N(l.reborn) + B2N(l.survival) + B2N(l.respawn) + B2N(l.round_end)
    + B2N(l.code # Nothing)

\* Lines of the round signals: no code token, no world id.
RoundLines ==
    { l \in [ round_start : {Nothing} \cup {Some(c) : c \in RoundStartCaps},
              killers     : {Nothing} \cup {Some(c) : c \in KillersCaps},
              death       : BOOLEAN,
              reborn      : BOOLEAN,
              survival    : BOOLEAN,
              respawn     : BOOLEAN,
              round_end   : BOOLEAN,
              code        : {Nothing},
              world_id    : {FALSE} ] : SignalCount(l) <= MaxSignals }

\* Lines of the code and clipboard path: code tokens and world ids, with the
\* round signals that decide what a code line sees (a round of one type
\* starts, gets its killers, is voided).
CodeStartCaps == [map_name : MapNames, round_type : {"Classic"}]
CodeKillersCaps == [ids : {<<3, 0, 7>>}, round_type : {None}]
CodePathLines ==
    { l \in [ round_start : {Nothing} \cup {Some(c) : c \in CodeStartCaps},
              killers     : {Nothing} \cup {Some(c) : c \in CodeKillersCaps},
              death       : {FALSE},
              reborn      : {FALSE},
              survival    : {FALSE},
              respawn     : BOOLEAN,
              round_end   : {FALSE},
              code        : {Nothing} \cup {Some(c) : c \in CodeLines},
              world_id    : BOOLEAN ] : SignalCount(l) <= MaxSignals }

(***************************************************************************)
(* Data model.                                                             *)
(***************************************************************************)
\* RoundTypeStats::default()
RoundTypeStatsDefault == [survivals |-> 0, deaths |-> 0]

\* RoundStats::default(); round_types is a HashMap, modelled as a function
\* whose domain is the set of keys.
RoundStatsDefault ==
    [total_rounds |-> 0, survivals |-> 0, deaths |-> 0, round_types |-> <<>>]

\* CurrentRoundInfo::default()
CurrentRoundInfoDefault ==
    [ is_active  |-> FALSE,
      map_name   |-> None,
      round_type |-> None,
      killers    |-> <<>>,
      is_dead    |-> FALSE,
      save_code  |-> None ]

\* AppSettings::default()
AppSettingsDefault ==
    [ log_dir |-> None,
      auto_switch_tab |-> FALSE,
      vr_overlay_enabled |-> FALSE,
      vr_overlay_position |-> "RightHand" ]

\* AppState::default(), with the history run() loads from data.json.
AppStateInit(history) ==
    [ settings |-> AppSettingsDefault,
      data |-> [history |-> history, stats |-> RoundStatsDefault],
      current_round_type |-> None,
      current_round |-> CurrentRoundInfoDefault,
      last_log_path |-> None,
      last_offset |-> 0,
      last_copied_code |-> None ]

\* terror_data::get_terror_data(id, round_type).name
TerrorName(id, rt) == <<"terror", id, rt>>

\* terror_data::round_type_to_english(round_type)
round_type_to_english(rt) == <<"english", rt>>

\* HashMap::entry(rt).or_default()
EntryOrDefault(round_types, rt) ==
    IF rt \in DOMAIN round_types
    THEN round_types
    ELSE round_types @@ (rt :> RoundTypeStatsDefault)

\* Option::unwrap_or
UnwrapOr(opt, dflt) == IF opt = None THEN dflt ELSE opt

(***************************************************************************)
(* process_log_line, one operator per pattern block, in source order.      *)
(***************************************************************************)
\* Mutant: the new round merged into the one in progress, whose killers,
\* death flag and save code are kept.
OnRoundStartMerged(l, s) ==
    IF l.round_start = Nothing THEN s
    ELSE LET caps == l.round_start[1]
         IN [ s EXCEPT
                !.current_round.is_active = TRUE,
                !.current_round.map_name = caps.map_name,
                !.current_round.round_type = caps.round_type,
                !.current_round_type = caps.round_type,
                !.data.stats.round_types =
                    EntryOrDefault(@, caps.round_type) ]

\* lib.rs:744-772
OnRoundStart(l, s) ==
    IF l.round_start = Nothing THEN s
    ELSE LET caps == l.round_start[1]
         IN [ s EXCEPT
                !.current_round =
                    [ is_active  |-> TRUE,
                      map_name   |-> caps.map_name,
                      round_type |-> caps.round_type,
                      killers    |-> <<>>,
                      is_dead    |-> FALSE,
                      save_code  |-> None ],
                !.current_round_type = caps.round_type,
                !.data.stats.round_types =
                    EntryOrDefault(@, caps.round_type) ]

\* Mutant: the ids stored as parsed, zeros included.
KillersUnfiltered(ids) == ids

\* [k1, k2, k3].into_iter().filter(|&k| k != 0).collect()
NonZeroKillers(ids) == SelectSeq(ids, LAMBDA k : k # 0)

\* Mutant: the backfill reaching CurrentRoundInfo alone.
OnKillersBackfillRoundOnly(l, s) ==
    IF l.killers = Nothing THEN s
    ELSE LET caps == l.killers[1]
             backfill == caps.round_type # None
                         /\ s.current_round.round_type = None
         IN [ s EXCEPT
                !.current_round.round_type =
                    IF backfill THEN caps.round_type ELSE @,
                !.current_round.killers = NonZeroKillers(caps.ids) ]

\* lib.rs:775-805
OnKillers(l, s) ==
    IF l.killers = Nothing THEN s
    ELSE LET caps == l.killers[1]
             backfill == caps.round_type # None
                         /\ s.current_round.round_type = None
         IN [ s EXCEPT
                !.current_round.round_type =
                    IF backfill THEN caps.round_type ELSE @,
                !.current_round_type =
                    IF backfill THEN caps.round_type ELSE @,
                !.current_round.killers = NonZeroKillers(caps.ids) ]

OnDeath(l, s) ==
    IF l.death THEN [s EXCEPT !.current_round.is_dead = TRUE] ELSE s

\* Mutant: the reborn block missing.
OnRebornIgnored(l, s) == s

OnReborn(l, s) ==
    IF l.reborn THEN [s EXCEPT !.current_round.is_dead = FALSE] ELSE s

\* Mutant: a voided round counted as a death of the tracked type's player.
OnRespawnCounted(l, s) ==
    IF l.respawn
    THEN [ s EXCEPT !.current_round = CurrentRoundInfoDefault,
                    !.current_round_type = None,
                    !.data.stats.deaths = @ + B2N(s.current_round.is_dead) ]
    ELSE s

OnRespawn(l, s) ==
    IF l.respawn
    THEN [ s EXCEPT !.current_round = CurrentRoundInfoDefault,
                    !.current_round_type = None ]
    ELSE s

\* Mutant: the global counter alone incremented.
TallyGlobalOnly(stats, rt, field) == [stats EXCEPT ![field] = @ + 1]

\* Mutant: a tallied round also counted in total_rounds.
TallyCountingRounds(stats, rt, field) ==
    [ stats EXCEPT
        ![field] = @ + 1,
        !.total_rounds = @ + 1,
        !.round_types = [EntryOrDefault(@, rt) EXCEPT ![rt][field] = @ + 1] ]

\* Mutant: the bucket alone incremented.
TallyBucketOnly(stats, rt, field) ==
    [ stats EXCEPT
        !.round_types = [EntryOrDefault(@, rt) EXCEPT ![rt][field] = @ + 1] ]

\* stats.<field> += 1 and round_types.entry(rt).or_default().<field> += 1
Tally(stats, rt, field) ==
    [ stats EXCEPT
        ![field] = @ + 1,
        !.round_types = [EntryOrDefault(@, rt) EXCEPT ![rt][field] = @ + 1] ]

OnRoundEnd(l, s) ==
    IF ~l.round_end THEN s
    ELSE LET round_type == UnwrapOr(s.current_round_type, "Unknown")
             field == IF s.current_round.is_dead THEN "deaths" ELSE "survivals"
         IN [ s EXCEPT
                !.current_round_type = None,
                !.data.stats = Tally(@, round_type, field),
                !.current_round = CurrentRoundInfoDefault ]

\* The blocks before the code block (lib.rs:744-877); the survival block
\* changes no state.
RoundSignals(l, s) ==
    OnRoundEnd(l, OnRespawn(l, OnReborn(l, OnDeath(l,
        OnKillers(l, OnRoundStart(l, s))))))

\* date/time from line.split_whitespace(): "" unless both tokens exist.
Timestamp(head) == IF Len(head) >= 2 THEN <<head[1], head[2]>> ELSE <<>>

\* The CodeEntry pushed for a code line, given the state the code block sees.
NewCodeEntry(l, s) ==
    LET round_type == s.current_round_type
        rt == UnwrapOr(round_type, "Classic")
        names == [i \in 1..Len(s.current_round.killers) |->
                     TerrorName(s.current_round.killers[i], rt)]
    IN [ code |-> l.code[1].code,
         timestamp |-> Timestamp(l.code[1].head),
         round_type |-> round_type,
         terror_names |->
             IF s.current_round.is_active /\ names # <<>>
             THEN Some(names) ELSE Nothing,
         round_type_english |->
             IF s.current_round.is_active /\ round_type # None
             THEN Some(round_type_to_english(round_type)) ELSE Nothing ]

\* Mutant: the newest entries dropped instead of the oldest.
EvictNewest(h) == IF Len(h) > MAX_HISTORY THEN SubSeq(h, 1, MAX_HISTORY) ELSE h

\* while history.len() > MAX_HISTORY { history.remove(0) }
RECURSIVE Evict(_)
Evict(h) == IF Len(h) > MAX_HISTORY THEN Evict(Tail(h)) ELSE h

\* Mutant: save_code recorded whether or not a round is active.
OnCodeAlwaysSaves(l, s) ==
    IF l.code = Nothing THEN s
    ELSE [ s EXCEPT
             !.current_round.save_code = l.code[1].code,
             !.data.history = Evict(Append(@, NewCodeEntry(l, s))) ]

OnCode(l, s) ==
    IF l.code = Nothing THEN s
    ELSE [ s EXCEPT
             !.current_round.save_code =
                 IF s.current_round.is_active THEN l.code[1].code ELSE @,
             !.data.history = Evict(Append(@, NewCodeEntry(l, s))) ]

\* Mutant: the code block leaving the event as it found it.
EventOfRoundSignals(l) ==
    IF l.round_end \/ l.respawn THEN "RoundEnded"
    ELSE IF l.survival \/ l.reborn \/ l.death \/ l.killers # Nothing
    THEN "StateChanged"
    ELSE IF l.round_start # Nothing THEN "RoundStarted"
    ELSE "None"

\* The LogEvent process_log_line returns.
EventOf(l) ==
    IF l.round_end \/ l.respawn THEN "RoundEnded"
    ELSE IF l.survival \/ l.reborn \/ l.death \/ l.killers # Nothing
    THEN "StateChanged"
    ELSE IF l.round_start # Nothing THEN "RoundStarted"
    ELSE IF l.code # Nothing THEN "StateChanged"
    ELSE "None"

process_log_line(l, s) == OnCode(l, RoundSignals(l, s))

(***************************************************************************)
(* maybe_copy_latest_code.  clip is what the clipboard does on this call:  *)
(* "unavailable" (Clipboard::new() is Err), "set_err" (set_text is Err) or *)
(* "ok".                                                                   *)
(***************************************************************************)
ClipOutcomes == {"unavailable", "set_err", "ok"}

\* history.last().map(|entry| entry.code.clone())
LatestCode(s) ==
    IF s.data.history = <<>> THEN None
    ELSE s.data.history[Len(s.data.history)].code

\* Mutant: the last-copied guard missing.
ReachesClipboardUnguarded(l, s) == l.world_id /\ LatestCode(s) # None

\* Whether the call gets past both early returns, to Clipboard::new().
ReachesClipboard(l, s) ==
    /\ l.world_id
    /\ LatestCode(s) # None
    /\ s.last_copied_code # LatestCode(s)

\* What the call does to the clipboard: "none" when it returns early.
ClipEffect(l, s, clip) == IF ReachesClipboard(l, s) THEN clip ELSE "none"

\* The assignment inside `if let Ok(mut clipboard) = Clipboard::new()`.
RecordCopied(s, clip) ==
    IF clip = "unavailable" THEN s
    ELSE [s EXCEPT !.last_copied_code = LatestCode(s)]

maybe_copy_latest_code(l, s, clip) ==
    IF ReachesClipboard(l, s) THEN RecordCopied(s, clip) ELSE s

\* The text on the system clipboard after the call.
ClipboardAfter(l, s, clip, old) ==
    IF ClipEffect(l, s, clip) = "ok" THEN LatestCode(s) ELSE old

(***************************************************************************)
(* State.                                                                  *)
(***************************************************************************)
VARIABLES
    state,      \* the AppState behind the state lock
    clipboard,  \* the text on the system clipboard
    loaded,     \* the history run() loaded at startup (never changes)
    appended,   \* history variable: loaded, then every CodeEntry pushed since
    round,      \* history variable: the signals seen in the round in progress
    run,        \* history variable: the present run of marker lines
    closed,     \* history variable: how the last line closed a round, if it did
    captured,   \* history variable: what the last line's code block saw
    lastClip,   \* history variable: what the last line did to the clipboard
    lock,       \* who holds the state lock: "free", "monitor" or "fg"
    vr,         \* the VrOverlayState behind the sidecar lock
    files,      \* settings.json and data.json
    mon,        \* the polling loop: its position and the locals of its tick
    fg,         \* the foreground command in progress, with its locals
    lastIo,     \* history variable: the I/O the last step performed, if any
    logs,       \* the log directory: the files' lengths, the latest file, faults
    tail,       \* history variable: the bytes fed, the last switch of file
    sidecar     \* the sidecar processes, and what the supervisor did to them

lineVars == <<state, clipboard, loaded, appended, round, run, closed,
              captured, lastClip>>
tailVars == <<logs, tail>>
procVars == <<lock, vr, files, mon, fg, lastIo, logs, tail, sidecar>>
vars == <<state, clipboard, loaded, appended, round, run, closed, captured,
          lastClip, lock, vr, files, mon, fg, lastIo, logs, tail, sidecar>>

\* A data.json written by an earlier session: nine entries, oldest first.
LoadedCodes == <<"1", "2", "3", "4", "5", "6", "7", "8", "9">>
LoadedHistory ==
    [ i \in 1..Len(LoadedCodes) |->
        [ code |-> LoadedCodes[i], timestamp |-> <<>>, round_type |-> None,
          terror_names |-> Nothing, round_type_english |-> Nothing ] ]

(***************************************************************************)
(* History variables.  They read the signals of the fed lines, in the      *)
(* evaluation order of process_log_line, and nothing of what the code      *)
(* stores (captured alone records the state handed to the code block).     *)
(***************************************************************************)
NoRound == [started |-> FALSE, death |-> "none", stats_before |-> Nothing,
            round_type |-> None, voided |-> FALSE, restart |-> Nothing]

\* restart: the line carries a round-start signal and no other signal; with
\* what the pattern captured and whether the line found a round active.
Restart(l, s) ==
    IF l.round_start # Nothing /\ SignalCount(l) = 1
    THEN Some([ caps |-> l.round_start[1],
                was_active |-> s.current_round.is_active ])
    ELSE Nothing

\* The round in progress once the line's round-start, killers-set, death and
\* reborn signals are counted: what is known when its respawn signal is
\* evaluated.  round_type is the type the signals gave the round: that of its
\* round-start line, else the first one a killers-set line carried.
RoundAtRespawn(l, r, s) ==
    LET r1 == IF l.round_start = Nothing THEN [r EXCEPT !.restart = Nothing]
              ELSE [ started |-> TRUE, death |-> "none",
                     stats_before |-> Some(s.data.stats),
                     round_type |-> l.round_start[1].round_type,
                     voided |-> FALSE,
                     restart |-> Restart(l, s) ]
        r2 == IF l.killers # Nothing /\ r1.round_type = None
              THEN [r1 EXCEPT !.round_type = l.killers[1].round_type] ELSE r1
        r3 == IF l.death THEN [r2 EXCEPT !.death = "dead"] ELSE r2
    IN IF l.reborn /\ r3.death = "dead"
       THEN [r3 EXCEPT !.death = "reborn"] ELSE r3

\* ... and when its round-end signal is evaluated.  voided: a respawn signal
\* voided a started round and no round-start signal came since.
RoundAtEnd(l, r, s) ==
    IF l.respawn
    THEN [ NoRound EXCEPT
             !.voided = RoundAtRespawn(l, r, s).started
                        \/ RoundAtRespawn(l, r, s).voided ]
    ELSE RoundAtRespawn(l, r, s)

RoundAfter(l, r, s) ==
    IF l.round_end THEN [NoRound EXCEPT !.voided = RoundAtEnd(l, r, s).voided]
    ELSE RoundAtEnd(l, r, s)

\* How the line closed a round: by its round-end signal, or (a line without
\* one) by its respawn signal; with the round as it stood at that signal.
ClosedBy(l, r, s) ==
    IF l.round_end
    THEN Some([by |-> "round_end", round |-> RoundAtEnd(l, r, s)])
    ELSE IF l.respawn
    THEN Some([by |-> "respawn", round |-> RoundAtRespawn(l, r, s)])
    ELSE Nothing

\* writes: the calls of set_text in the run; copies: those that succeeded.
NoRun == [code |-> None, fresh |-> FALSE, writes |-> 0, copies |-> 0]

\* The run of consecutive marker lines over one latest code, after a line
\* that left `latest` as the latest code, saw `copied` as the last copied
\* code and did `effect` to the clipboard.
RunAfter(l, rn, latest, copied, effect) ==
    LET w == IF effect \in {"ok", "set_err"} THEN 1 ELSE 0
        c == IF effect = "ok" THEN 1 ELSE 0
    IN IF ~l.world_id \/ latest = None THEN NoRun
       ELSE IF rn.code = latest
            THEN [rn EXCEPT !.writes = @ + w, !.copies = @ + c]
       ELSE [ code |-> latest, fresh |-> copied # latest, writes |-> w,
              copies |-> c ]

(***************************************************************************)
(* The specifications: lines fed one at a time, as the loop body of        *)
(* start_log_monitor feeds them (lib.rs:998-1019).                         *)
(***************************************************************************)
\* VrOverlayState::default()
VrOverlayStateDefault == [process |-> FALSE, stdin_writer |-> FALSE]

\* The polling loop at the top of `loop`, no tick in progress.
MonitorIdle ==
    [ pc |-> "top", ticks |-> 0, left |-> 0,
      should_emit_state |-> FALSE,
      should_emit_round_started |-> FALSE,
      should_emit_round_ended |-> FALSE,
      killers_changed |-> FALSE,
      copy |-> Nothing,
      latest_log |-> None,
      sent |-> <<>>,
      killers_set |-> FALSE,
      round_closed |-> FALSE,
      matched |-> FALSE,
      data_changed |-> FALSE,
      copied_by |-> "nobody",
      outputs |-> <<>> ]

\* No command in progress.
FgIdle == [pc |-> "idle", cmd |-> "none", calls |-> 0, copy |-> Nothing]

\* The files find_latest_log_file can return.
LogFiles == {"output_log_1.txt", "output_log_2.txt"}

\* An empty log directory, no fault.  len: the length of each file (a file
\* only grows, so its content is its bytes 1..len); latest: the file
\* modified last; fault: the I/O call that fails for now.
LogsEmpty ==
    [ len |-> [f \in LogFiles |-> 0], latest |-> None, fault |-> "none",
      faults |-> 0 ]

\* No sidecar process.  alive: the child whose handle the supervisor holds
\* is running; orphans: the running children whose handle it dropped;
\* spawns: all it spawned; wire: the lines written to the standard input of
\* the latest child; last: its last call.
SidecarNone ==
    [ alive |-> FALSE, orphans |-> 0, spawns |-> 0, wire |-> <<>>,
      last |-> Nothing ]

\* Nothing fed, no file tracked.  fed: every byte handed to line processing,
\* as <<file, position>>; since: those fed since the last switch; at_switch:
\* the length the file had at that switch; start: the offset the switch
\* chose; stat_failed: whether its fs::metadata failed; reads: the ticks
\* since then that read at least a byte; failed: a tick failed for I/O and
\* no tick has read a byte since; retried: the last tick that read a byte
\* came after a failed one.
TailNone ==
    [ fed |-> <<>>, since |-> <<>>, at_switch |-> 0, start |-> 0,
      stat_failed |-> FALSE, reads |-> 0, failed |-> FALSE,
      retried |-> FALSE ]

InitWith(history) ==
    /\ lock = "free"
    /\ vr = VrOverlayStateDefault
    /\ files = [settings |-> Nothing, data |-> Nothing]
    /\ mon = MonitorIdle
    /\ fg = FgIdle
    /\ lastIo = Nothing
    /\ logs = LogsEmpty
    /\ tail = TailNone
    /\ sidecar = SidecarNone
    /\ loaded = history
    /\ state = AppStateInit(loaded)
    /\ clipboard = None
    /\ appended = loaded
    /\ round = NoRound
    /\ run = NoRun
    /\ closed = Nothing
    /\ captured = Nothing
    /\ lastClip = "none"

\* The outcomes the clipboard can have on this call.
ClipChoices(l, s) == IF ReachesClipboard(l, s) THEN ClipOutcomes ELSE {"ok"}

\* process_log_line(line) followed by maybe_copy_latest_code(line).
FeedLine(l) ==
    LET seen == RoundSignals(l, state)
        mid == process_log_line(l, state)
    IN /\ l.round_end =>
              state.data.stats.survivals + state.data.stats.deaths < MaxTally
       /\ l.code # Nothing => Len(appended) < Len(loaded) + MaxAppends
       /\ \E clip \in ClipChoices(l, mid) :
              /\ state' = maybe_copy_latest_code(l, mid, clip)
              /\ clipboard' = ClipboardAfter(l, mid, clip, clipboard)
              /\ lastClip' = ClipEffect(l, mid, clip)
              /\ run' = RunAfter(l, run, LatestCode(mid),
                                 mid.last_copied_code,
                                 ClipEffect(l, mid, clip))
       /\ appended' = IF l.code = Nothing THEN appended
                      ELSE Append(appended, NewCodeEntry(l, seen))
       /\ round' = RoundAfter(l, round, state)
       /\ closed' = ClosedBy(l, round, state)
       /\ captured' = IF l.code = Nothing THEN Nothing
                      ELSE Some([ code |-> l.code[1].code,
                                  current_round |-> seen.current_round,
                                  current_round_type |->
                                      seen.current_round_type ])
       /\ UNCHANGED loaded

\* The round machine, fed the lines of the round signals.
Init == InitWith(<<>>)
Next == \E l \in RoundLines : FeedLine(l) /\ UNCHANGED procVars
Spec == Init /\ [][Next]_vars

\* The round machine started on the stats run() loaded from data.json
\* (lib.rs:1109-1114), total_rounds being 0 or a value an earlier writer of
\* the file left there.
InitStats ==
    /\ lock = "free"
    /\ vr = VrOverlayStateDefault
    /\ files = [settings |-> Nothing, data |-> Nothing]
    /\ mon = MonitorIdle
    /\ fg = FgIdle
    /\ lastIo = Nothing
    /\ logs = LogsEmpty
    /\ tail = TailNone
    /\ sidecar = SidecarNone
    /\ loaded = <<>>
    /\ \E n \in {0, 3} :
           state = [AppStateInit(loaded) EXCEPT !.data.stats.total_rounds = n]
    /\ clipboard = None
    /\ appended = loaded
    /\ round = NoRound
    /\ run = NoRun
    /\ closed = Nothing
    /\ captured = Nothing
    /\ lastClip = "none"

NextStats == \E l \in RoundLines : FeedLine(l) /\ UNCHANGED procVars
SpecStats == InitStats /\ [][NextStats]_vars

\* The code and clipboard path, from an empty or a loaded history.
InitCode == \E h \in {<<>>, LoadedHistory} : InitWith(h)
NextCode == \E l \in CodePathLines : FeedLine(l) /\ UNCHANGED procVars
SpecCode == InitCode /\ [][NextCode]_vars

(***************************************************************************)
(* The polling loop (start_log_monitor) and the foreground commands, one   *)
(* action per stretch of code between two lock operations or I/O calls.    *)
(***************************************************************************)
\* The lines a tick reads: at most one signal each, and the marker on the
\* line of a code or on a line of its own.
MonitorLines ==
    { l \in [ round_start : {Nothing} \cup {Some(c) : c \in CodeStartCaps},
              killers     : {Nothing} \cup {Some(c) : c \in CodeKillersCaps},
              death       : {FALSE},
              reborn      : {FALSE},
              survival    : {FALSE},
              respawn     : {FALSE},
              round_end   : BOOLEAN,
              code        : {Nothing, Some([ code |-> "12_34_56",
                                             head |-> <<"2024-01-01", "20:00:00">> ])},
              world_id    : BOOLEAN ] :
        /\ SignalCount(l) <= 1
        /\ l.world_id => (l.code # Nothing \/ SignalCount(l) = 0) }

\* The I/O a step performs, and whether its thread holds the state lock
\* while it does.
Io(op, by) == Some([op |-> op, by |-> by, locked |-> lock = by])

\* get_effective_log_dir; dflt is get_default_log_dir(), None when the
\* environment has no LOCALAPPDATA.
get_effective_log_dir(settings, dflt) ==
    IF settings.log_dir # None THEN settings.log_dir ELSE dflt

\* lib.rs:965-970: the settings read under the lock, which is released at
\* the end of the block.
MonitorResolveDir ==
    /\ mon.pc = "top"
    /\ mon.ticks < MaxTicks
    /\ lock = "free"
    /\ \E dflt \in {None, "LocalLow/VRChat/VRChat"} :
           mon' = [ mon EXCEPT
                      !.ticks = @ + 1,
                      !.pc = IF get_effective_log_dir(state.settings, dflt)
                                  = None
                             THEN "sleep" ELSE "find" ]
    /\ lastIo' = Nothing
    /\ UNCHANGED <<sidecar, tailVars, lineVars, lock, vr, files, fg>>

\* lib.rs:971: find_latest_log_file, which finds a file or does not.
MonitorFind ==
    /\ mon.pc = "find"
    /\ \E found \in BOOLEAN :
           mon' = [mon EXCEPT !.pc = IF found THEN "acquire" ELSE "sleep"]
    /\ lastIo' = Nothing
    /\ UNCHANGED <<sidecar, tailVars, lineVars, lock, vr, files, fg>>

\* lib.rs:972-996: the lock taken, the file read.  A failed open, seek or
\* read ends the block, which releases the lock.
MonitorAcquireUpTo(max_lines) ==
    /\ mon.pc = "acquire"
    /\ lock = "free"
    /\ \E read_ok \in BOOLEAN, n \in 0..max_lines :
           IF read_ok
           THEN mon' = [mon EXCEPT !.pc = "lines", !.left = n]
                /\ lock' = "monitor"
           ELSE mon' = [mon EXCEPT !.pc = "sleep"] /\ lock' = "free"
    /\ lastIo' = Nothing
    /\ UNCHANGED <<sidecar, tailVars, lineVars, vr, files, fg>>

MonitorAcquire == MonitorAcquireUpTo(MaxTickLines)

\* History of the tick: a killers-set signal left the killers list
\* non-empty, a respawn or round-end signal closed a round, a line matched
\* one of the eight patterns, a line changed AppData (history or stats).
TickSignals(m, l, s) ==
    [ m EXCEPT
        !.killers_set = @ \/ (/\ l.killers # Nothing
                              /\ OnKillers(l, OnRoundStart(l, s))
                                     .current_round.killers # <<>>),
        !.round_closed = @ \/ l.respawn \/ l.round_end,
        !.matched = @ \/ SignalCount(l) > 0,
        !.data_changed = @ \/ process_log_line(l, s).data # s.data ]

\* The match on the LogEvent of a line (lib.rs:1000-1017).
TickFlags(m, event, killers) ==
    [ m EXCEPT
        !.should_emit_state = @ \/ event # "None",
        !.should_emit_round_started = @ \/ event = "RoundStarted",
        !.should_emit_round_ended = @ \/ event = "RoundEnded",
        !.killers_changed = @ \/ (event = "StateChanged" /\ killers # <<>>) ]

\* lib.rs:998-1019, one line: process_log_line, the event, then
\* maybe_copy_latest_code, all with the guard in hand.
MonitorLine ==
    /\ mon.pc = "lines"
    /\ mon.left > 0
    /\ \E l \in MonitorLines :
           /\ FeedLine(l)
           /\ mon' = [ TickFlags(TickSignals(mon, l, state), EventOf(l),
                                 process_log_line(l, state).current_round.killers)
                       EXCEPT !.left = @ - 1 ]
    /\ lastIo' = IF lastClip' = "none" THEN Nothing
                 ELSE Io("clipboard", "monitor")
    /\ UNCHANGED <<sidecar, tailVars, lock, vr, files, fg>>

\* lib.rs:1024-1040: what the tick copies out of the guarded state.
CopyOut(s) ==
    [ data_clone |-> s.data,
      snapshot |-> [ settings |-> s.settings,
                     history |-> s.data.history,
                     latest_code |-> LatestCode(s),
                     stats |-> s.data.stats,
                     survivals |-> s.data.stats.survivals,
                     current_round |-> s.current_round ],
      auto_switch |-> s.settings.auto_switch_tab,
      vr_enabled |-> s.settings.vr_overlay_enabled,
      killers |-> s.current_round.killers,
      round_type |-> UnwrapOr(s.current_round.round_type, "Classic") ]

\* Mutant: the guard not dropped before the I/O of the tick.
LockKeptAfterCopyOut == lock

\* drop(state_guard), lib.rs:1041.
LockAfterCopyOut == "free"

\* lib.rs:1020-1041, and the end of the block when nothing changed.
MonitorAfterLines ==
    /\ mon.pc = "lines"
    /\ mon.left = 0
    /\ IF mon.should_emit_state
       THEN /\ mon' = [ mon EXCEPT !.pc = "persist",
                                    !.copy = Some(CopyOut(state)),
                                    !.copied_by = lock ]
            /\ lock' = LockAfterCopyOut
       ELSE /\ mon' = [mon EXCEPT !.pc = "sleep"]
            /\ lock' = "free"
    /\ lastIo' = Nothing
    /\ UNCHANGED <<sidecar, tailVars, lineVars, vr, files, fg>>

\* What a tick hands to persist_data and to the state_updated event: the
\* history and stats of the payload.
Output(op, payload) ==
    [op |-> op, history |-> payload.history, stats |-> payload.stats]

\* lib.rs:1042: persist_data, whose failure is ignored.
MonitorPersist ==
    /\ mon.pc = "persist"
    /\ \E ok \in BOOLEAN :
           files' = IF ok THEN [files EXCEPT !.data = Some(mon.copy[1].data_clone)]
                    ELSE files
    /\ lastIo' = Io("persist_data", "monitor")
    /\ mon' = [ mon EXCEPT
                  !.pc = "emit",
                  !.outputs = Append(@, Output("persist_data",
                                               mon.copy[1].data_clone)) ]
    /\ UNCHANGED <<sidecar, tailVars, lineVars, lock, vr, fg>>

\* lib.rs:1043-1051: state_updated, and round_started / round_ended.
MonitorEmit ==
    /\ mon.pc = "emit"
    /\ lastIo' = Io("emit", "monitor")
    /\ mon' = [ mon EXCEPT
                  !.pc = IF mon.copy[1].vr_enabled THEN "vr_update" ELSE "sleep",
                  !.outputs = Append(@, Output("state_updated",
                                               mon.copy[1].snapshot)) ]
    /\ UNCHANGED <<sidecar, tailVars, lineVars, lock, vr, files, fg>>

\* send_vr_command: a line written to the sidecar when it has a writer.
SendVr(by) == IF vr.stdin_writer THEN Io("sidecar_send", by) ELSE Nothing

\* lib.rs:1055-1067
MonitorSendUpdate ==
    /\ mon.pc = "vr_update"
    /\ lastIo' = IF mon.killers_changed /\ mon.copy[1].killers # <<>>
                 THEN SendVr("monitor") ELSE Nothing
    /\ mon' = [ mon EXCEPT
                  !.pc = "vr_clear",
                  !.sent = IF mon.killers_changed /\ mon.copy[1].killers # <<>>
                           THEN Append(@, "update_terrors") ELSE @ ]
    /\ UNCHANGED <<sidecar, tailVars, lineVars, lock, vr, files, fg>>

\* lib.rs:1068-1070
MonitorSendClear ==
    /\ mon.pc = "vr_clear"
    /\ lastIo' = IF mon.should_emit_round_ended
                 THEN SendVr("monitor") ELSE Nothing
    /\ mon' = [ mon EXCEPT
                  !.pc = "sleep",
                  !.sent = IF mon.should_emit_round_ended
                           THEN Append(@, "clear") ELSE @ ]
    /\ UNCHANGED <<sidecar, tailVars, lineVars, lock, vr, files, fg>>

\* lib.rs:1076-1078: the block ends, where a guard still alive is dropped,
\* and the loop sleeps.
MonitorSleep ==
    /\ mon.pc = "sleep"
    /\ mon' = [MonitorIdle EXCEPT !.ticks = mon.ticks]
    /\ lock' = IF lock = "monitor" THEN "free" ELSE lock
    /\ lastIo' = Nothing
    /\ UNCHANGED <<sidecar, tailVars, lineVars, vr, files, fg>>

\* The command returns.
FgDone == [FgIdle EXCEPT !.calls = fg.calls]

\* Mutant: the snapshot read without waiting for the lock.
GetStateUnlocked == TRUE

\* state.lock() of get_state (lib.rs:241) returns once no other context
\* holds the guard.
GetStateLocked == lock = "free"

\* get_state (lib.rs:239-250): the snapshot copied under the lock.
FgGetState ==
    /\ fg.pc = "idle"
    /\ fg.calls < MaxCalls
    /\ GetStateLocked
    /\ fg' = [ pc |-> "return", cmd |-> "get_state", calls |-> fg.calls + 1,
               copy |-> Some(CopyOut(state).snapshot) ]
    /\ lastIo' = Nothing
    /\ UNCHANGED <<sidecar, tailVars, lineVars, lock, vr, files, mon>>

FgReturn ==
    /\ fg.pc = "return"
    /\ fg' = FgDone
    /\ lastIo' = Nothing
    /\ UNCHANGED <<sidecar, tailVars, lineVars, lock, vr, files, mon>>

\* The commands that change a setting, with the values they are called with.
SettingCalls ==
    [cmd : {"set_log_dir"}, arg : {"D:/logs"}]
    \cup [cmd : {"set_auto_switch_tab"}, arg : {"true"}]
    \cup [cmd : {"set_vr_overlay_enabled"}, arg : {"true", "false"}]
    \cup [cmd : {"set_vr_overlay_position"}, arg : {"elsewhere"}]

\* The assignment each command makes under the lock.
ApplySetting(c, settings) ==
    CASE c.cmd = "set_log_dir" -> [settings EXCEPT !.log_dir = c.arg]
      [] c.cmd = "set_auto_switch_tab" ->
            [settings EXCEPT !.auto_switch_tab = (c.arg = "true")]
      [] c.cmd = "set_vr_overlay_enabled" ->
            [settings EXCEPT !.vr_overlay_enabled = (c.arg = "true")]
      [] c.cmd = "set_vr_overlay_position" ->
            [ settings EXCEPT !.vr_overlay_position =
                IF c.arg \in {"LeftHand", "Above"} THEN c.arg ELSE "RightHand" ]

\* The first block of set_log_dir, set_auto_switch_tab,
\* set_vr_overlay_enabled and set_vr_overlay_position: the lock taken, the
\* setting assigned, the settings (and the round) cloned.
FgLockedUpdate ==
    /\ fg.pc = "idle"
    /\ fg.calls < MaxCalls
    /\ lock = "free"
    /\ \E c \in SettingCalls :
           /\ state' = [state EXCEPT !.settings = ApplySetting(c, @)]
           /\ fg' = [ pc |-> "unlock", cmd |-> c.cmd, calls |-> fg.calls + 1,
                      copy |-> Some([ settings |-> state'.settings,
                                      current_round |-> state.current_round ]) ]
    /\ lock' = "fg"
    /\ lastIo' = Nothing
    /\ UNCHANGED <<sidecar, tailVars, clipboard, loaded, appended, round, run, closed, captured,
                   lastClip, vr, files, mon>>

\* Mutant: the command's guard alive until the command returns.
LockKeptAfterUpdate == lock

\* The end of the block (lib.rs:262, 277, 295, 341) drops the guard.
LockAfterUpdate == "free"

\* The end of that block, where the guard is dropped.
FgUnlock ==
    /\ fg.pc = "unlock"
    /\ lock' = LockAfterUpdate
    /\ fg' = [fg EXCEPT !.pc = "persist"]
    /\ lastIo' = Nothing
    /\ UNCHANGED <<sidecar, tailVars, lineVars, vr, files, mon>>

\* Where the command goes once persist_settings returned Ok.
AfterPersist(f) ==
    CASE f.cmd = "set_vr_overlay_enabled" ->
            IF f.copy[1].settings.vr_overlay_enabled
            THEN "vr_start" ELSE "vr_stop"
      [] f.cmd = "set_vr_overlay_position" ->
            IF f.copy[1].settings.vr_overlay_enabled
            THEN "vr_send" ELSE "idle"
      [] OTHER -> "idle"

\* persist_settings(&app_handle, &updated_settings)?
FgPersistSettings ==
    /\ fg.pc = "persist"
    /\ \E ok \in BOOLEAN :
           IF ok
           THEN /\ files' = [files EXCEPT !.settings = Some(fg.copy[1].settings)]
                /\ fg' = IF AfterPersist(fg) = "idle" THEN FgDone
                         ELSE [fg EXCEPT !.pc = AfterPersist(fg)]
           ELSE files' = files /\ fg' = FgDone
    /\ lastIo' = Io("persist_settings", "fg")
    /\ UNCHANGED <<sidecar, tailVars, lineVars, lock, vr, mon>>

\* start_vr_overlay (lib.rs:526-597) as set_vr_overlay_enabled calls it,
\* then the test of lib.rs:302.
FgStartVr ==
    /\ fg.pc = "vr_start"
    /\ \E outcome \in {"not_found", "spawn_failed", "spawned"} :
           LET started == vr.process \/ outcome = "spawned"
               cr == fg.copy[1].current_round
           IN /\ vr' = IF vr.process \/ ~started THEN vr
                       ELSE [process |-> TRUE, stdin_writer |-> TRUE]
              /\ fg' = IF started /\ cr.is_active /\ cr.killers # <<>>
                       THEN [fg EXCEPT !.pc = "vr_send"] ELSE FgDone
    /\ lastIo' = Io("sidecar_start", "fg")
    /\ UNCHANGED <<sidecar, tailVars, lineVars, lock, files, mon>>

\* send_vr_command as the commands call it (lib.rs:309-315, 346).
FgSendVr ==
    /\ fg.pc = "vr_send"
    /\ lastIo' = SendVr("fg")
    /\ fg' = FgDone
    /\ UNCHANGED <<sidecar, tailVars, lineVars, lock, vr, files, mon>>

\* stop_vr_overlay (lib.rs:637-656) as set_vr_overlay_enabled calls it.
FgStopVr ==
    /\ fg.pc = "vr_stop"
    /\ vr' = VrOverlayStateDefault
    /\ lastIo' = Io("sidecar_stop", "fg")
    /\ fg' = FgDone
    /\ UNCHANGED <<sidecar, tailVars, lineVars, lock, files, mon>>

NextMonitor ==
    \/ MonitorResolveDir
    \/ MonitorFind
    \/ MonitorAcquire
    \/ MonitorLine
    \/ MonitorAfterLines
    \/ MonitorPersist
    \/ MonitorEmit
    \/ MonitorSendUpdate
    \/ MonitorSendClear
    \/ MonitorSleep
    \/ FgGetState
    \/ FgReturn
    \/ FgLockedUpdate
    \/ FgUnlock
    \/ FgPersistSettings
    \/ FgStartVr
    \/ FgSendVr
    \/ FgStopVr

SpecMonitor == Init /\ [][NextMonitor]_vars

\* The polling loop alone, with the overlay enabled in the settings that
\* setup loaded (lib.rs:1102-1107) and the sidecar started by setup or not
\* (lib.rs:1116-1131), reading up to MaxBurstLines lines in a tick.
InitTick ==
    /\ lock = "free"
    /\ \E started \in BOOLEAN :
           vr = [process |-> started, stdin_writer |-> started]
    /\ files = [settings |-> Nothing, data |-> Nothing]
    /\ mon = MonitorIdle
    /\ fg = FgIdle
    /\ lastIo = Nothing
    /\ logs = LogsEmpty
    /\ tail = TailNone
    /\ sidecar = SidecarNone
    /\ loaded = <<>>
    /\ state = [AppStateInit(loaded) EXCEPT !.settings.vr_overlay_enabled = TRUE]
    /\ clipboard = None
    /\ appended = loaded
    /\ round = NoRound
    /\ run = NoRun
    /\ closed = Nothing
    /\ captured = Nothing
    /\ lastClip = "none"

TickAcquire == MonitorAcquireUpTo(MaxBurstLines)

NextTick ==
    \/ MonitorResolveDir
    \/ MonitorFind
    \/ TickAcquire
    \/ MonitorLine
    \/ MonitorAfterLines
    \/ MonitorPersist
    \/ MonitorEmit
    \/ MonitorSendUpdate
    \/ MonitorSendClear
    \/ MonitorSleep

SpecTick == InitTick /\ [][NextTick]_vars

(***************************************************************************)
(* Tailing (lib.rs:964-1020, 1078): the files of the log directory grow    *)
(* while the loop polls them.  The bytes are those of lines that match no  *)
(* pattern (LogEvent::None, nothing to emit), so a tick changes last_log_  *)
(* path and last_offset only.                                              *)
(***************************************************************************)
\* The I/O calls of a tick that can fail: read_dir / metadata of
\* find_latest_log_file, fs::metadata of the switch, File::open, and seek
\* or read_to_string.
Faults == {"dir", "stat", "open", "read"}

\* The log writer appends a byte to a file, which makes it the file modified
\* last.
LogAppend ==
    /\ \E f \in LogFiles :
           /\ logs.len[f] < MaxBytes
           /\ logs' = [logs EXCEPT !.len[f] = @ + 1, !.latest = f]
    /\ lastIo' = Nothing
    /\ UNCHANGED <<sidecar, lineVars, lock, vr, files, mon, fg, tail>>

\* An I/O call starts to fail.
LogFault ==
    /\ logs.fault = "none"
    /\ logs.faults < MaxFaults
    /\ \E k \in Faults : logs' = [logs EXCEPT !.fault = k, !.faults = @ + 1]
    /\ lastIo' = Nothing
    /\ UNCHANGED <<sidecar, lineVars, lock, vr, files, mon, fg, tail>>

\* ... and works again.
LogRestore ==
    /\ logs.fault # "none"
    /\ logs' = [logs EXCEPT !.fault = "none"]
    /\ lastIo' = Nothing
    /\ UNCHANGED <<sidecar, lineVars, lock, vr, files, mon, fg, tail>>

\* lib.rs:965-970, with LOCALAPPDATA set.
TailResolveDir ==
    /\ mon.pc = "top"
    /\ lock = "free"
    /\ mon' = [ mon EXCEPT
                  !.pc = IF get_effective_log_dir(state.settings,
                                                  "LocalLow/VRChat/VRChat")
                              = None
                         THEN "sleep" ELSE "find" ]
    /\ lastIo' = Nothing
    /\ UNCHANGED <<sidecar, lineVars, lock, vr, files, fg, tailVars>>

\* find_latest_log_file: None when read_dir or a metadata call fails, or the
\* directory has no file.
find_latest_log_file(dir) ==
    IF dir.fault = "dir" THEN None ELSE dir.latest

\* lib.rs:971
TailFind ==
    /\ mon.pc = "find"
    /\ mon' = [ mon EXCEPT
                  !.latest_log = find_latest_log_file(logs),
                  !.pc = IF find_latest_log_file(logs) = None
                         THEN "sleep" ELSE "acquire" ]
    /\ tail' = [ tail EXCEPT
                   !.failed = @ \/ (logs.fault = "dir" /\ logs.latest # None) ]
    /\ lastIo' = Nothing
    /\ UNCHANGED <<sidecar, lineVars, lock, vr, files, fg, logs>>

\* Mutant: a newly tracked file read from its start.
SwitchOffsetFromStart(stat_ok, len) == 0

\* lib.rs:982-986: the file's length, or 0 when it cannot be stat'ed.
SwitchOffset(stat_ok, len) == IF stat_ok THEN len ELSE 0

\* lib.rs:972-987: the lock taken; a file other than the tracked one becomes
\* the tracked one.
TailSwitch ==
    /\ mon.pc = "acquire"
    /\ lock = "free"
    /\ lock' = "monitor"
    /\ mon' = [mon EXCEPT !.pc = "open"]
    /\ IF state.last_log_path # mon.latest_log
       THEN /\ state' =
                 [ state EXCEPT
                     !.last_log_path = mon.latest_log,
                     !.last_offset = SwitchOffset(logs.fault # "stat",
                                                  logs.len[mon.latest_log]) ]
            /\ tail' = [ tail EXCEPT
                           !.since = <<>>,
                           !.at_switch = logs.len[mon.latest_log],
                           !.start = state'.last_offset,
                           !.stat_failed = (logs.fault = "stat"),
                           !.reads = 0 ]
       ELSE UNCHANGED <<sidecar, state, tail>>
    /\ lastIo' = Nothing
    /\ UNCHANGED <<sidecar, clipboard, loaded, appended, round, run, closed, captured,
                   lastClip, vr, files, fg, logs>>

\* read_to_string after seek(Start(offset)): the bytes from offset to the
\* end of the file, none when the offset is at or past the end.
ReadFrom(f, offset, len) ==
    IF offset >= len THEN <<>>
    ELSE [i \in 1..(len - offset) |-> <<f, offset + i>>]

\* Mutant: the offset set to the number of bytes read.
NewOffsetBytesRead(offset, buffer) == Len(buffer)

\* lib.rs:992: new_offset
NewOffset(offset, buffer) == offset + Len(buffer)

\* Mutant: the guard outlives the block.
LockLeaked == lock

\* lib.rs:1076: the block of state_guard ends, which drops it.
LockAtBlockEnd == "free"

\* lib.rs:988-1020 and the end of the block: the file opened and read from
\* last_offset, the buffer's lines processed, last_offset advanced, the lock
\* released.  A failed open, seek or read changes nothing.
TailRead ==
    /\ mon.pc = "open"
    /\ lock' = LockAtBlockEnd
    /\ mon' = [mon EXCEPT !.pc = "sleep"]
    /\ IF logs.fault \in {"open", "read"}
       THEN state' = state /\ tail' = [tail EXCEPT !.failed = TRUE]
       ELSE LET buffer == ReadFrom(state.last_log_path, state.last_offset,
                                   logs.len[state.last_log_path])
            IN /\ state' = [ state EXCEPT
                               !.last_offset = NewOffset(@, buffer) ]
               /\ tail' = [ tail EXCEPT
                              !.fed = @ \o buffer,
                              !.since = @ \o buffer,
                              !.reads = IF buffer = <<>> THEN @ ELSE @ + 1,
                              !.failed = @ /\ buffer = <<>>,
                              !.retried = IF buffer = <<>> THEN @
                                          ELSE tail.failed ]
    /\ lastIo' = Nothing
    /\ UNCHANGED <<sidecar, clipboard, loaded, appended, round, run, closed, captured,
                   lastClip, vr, files, fg, logs>>

\* lib.rs:1078
TailSleep ==
    /\ mon.pc = "sleep"
    /\ mon' = [mon EXCEPT !.pc = "top", !.latest_log = None]
    /\ lastIo' = Nothing
    /\ UNCHANGED <<sidecar, lineVars, lock, vr, files, fg, tailVars>>

\* The steps of the polling thread.
TailTick == TailResolveDir \/ TailFind \/ TailSwitch \/ TailRead \/ TailSleep

NextTail ==
    \/ LogAppend
    \/ LogFault
    \/ LogRestore
    \/ TailResolveDir
    \/ TailFind
    \/ TailSwitch
    \/ TailRead
    \/ TailSleep

SpecTail == Init /\ [][NextTail]_vars

\* The polling thread keeps running.
SpecTailFair == SpecTail /\ WF_vars(TailTick)

(***************************************************************************)
(* The sidecar supervisor: start_vr_overlay, stop_vr_overlay and           *)
(* send_vr_command.  Each holds the mutex of VrOverlayState from its first *)
(* line to its return, so a call is one step whoever makes it.             *)
(***************************************************************************)
\* VrCommand, as the callers build it.
VrUpdateTerrors == [type |-> "update_terrors", arg |-> "3,7/Classic"]
VrSetPosition == [type |-> "set_position", arg |-> "LeftHand"]
VrClear == [type |-> "clear", arg |-> ""]
VrQuit == [type |-> "quit", arg |-> ""]
\* The commands send_vr_command is called with (lib.rs:309, 346, 1060, 1069).
SentCommands == {VrUpdateTerrors, VrSetPosition, VrClear}

\* serde_json::to_string / to_vec
serde_json(cmd) == <<"json", cmd>>

\* base64::engine::general_purpose::STANDARD.encode
base64(bytes) == <<"base64", bytes>>

\* lib.rs:662-666: the line send_vr_command writes.
SendLine(cmd) == [prefix |-> "b64:", body |-> base64(serde_json(cmd))]

\* lib.rs:641-642: the line stop_vr_overlay writes.
QuitLine == [prefix |-> "", body |-> serde_json(VrQuit)]

\* What a call did: the VrOverlayState it found, the lines it wrote, what it
\* returned.
Call(op, wrote, result, io_ok, spawned, killed) ==
    Some([ op |-> op, before |-> vr, alive_before |-> sidecar.alive,
           wrote |-> wrote, result |-> result, io_ok |-> io_ok,
           spawned |-> spawned, killed |-> killed ])

\* Mutant: a running supervisor not recognised.
NeverRunning(v) == FALSE

\* lib.rs:534: state.process.is_some()
AlreadyRunning(v) == v.process

\* Mutant: the child stored without its stdin.
VrStartedWithoutWriter == [process |-> TRUE, stdin_writer |-> FALSE]

\* lib.rs:585-593: the child is spawned with stdin(Stdio::piped()), so that
\* child.stdin.take() is Some; both are stored.
VrAfterStart == [process |-> TRUE, stdin_writer |-> TRUE]

\* start_vr_overlay: a no-op when running; else the binary is looked up and
\* spawned, and the child and its stdin are stored (lib.rs:585-593).
SidecarStart ==
    /\ \E outcome \in {"not_found", "spawn_failed", "spawned"} :
           IF AlreadyRunning(vr)
           THEN /\ vr' = vr
                /\ sidecar' = [ sidecar EXCEPT
                      !.last = Call("start", <<>>, "Ok", TRUE, FALSE, FALSE) ]
           ELSE IF outcome = "spawned"
           THEN /\ sidecar.spawns < MaxSpawns
                /\ vr' = VrAfterStart
                /\ sidecar' =
                     [ sidecar EXCEPT
                         !.alive = TRUE,
                         !.orphans = @ + B2N(vr.process /\ sidecar.alive),
                         !.spawns = @ + 1,
                         !.wire = <<>>,
                         !.last = Call("start", <<>>, "Ok", TRUE, TRUE, FALSE) ]
           ELSE /\ vr' = vr
                /\ sidecar' = [ sidecar EXCEPT
                      !.last = Call("start", <<>>, "Err", FALSE, FALSE, FALSE) ]
    /\ lastIo' = Nothing
    /\ UNCHANGED <<lineVars, lock, files, mon, fg, tailVars>>

\* Mutant: the writer kept when the child is gone.
VrWriterKept(v) == [v EXCEPT !.process = FALSE]

\* lib.rs:646 and 653: state.process.take(), state.stdin_writer = None
VrAfterStop(v) == [process |-> FALSE, stdin_writer |-> FALSE]

\* stop_vr_overlay: Quit written when there is a writer (the result of the
\* write ignored), the child killed and reaped when there is one.
SidecarStop ==
    /\ \E write_ok \in BOOLEAN :
           LET wrote == IF vr.stdin_writer /\ write_ok
                        THEN <<QuitLine>> ELSE <<>>
           IN sidecar' =
                [ sidecar EXCEPT
                    !.alive = IF vr.process THEN FALSE ELSE @,
                    !.wire = @ \o wrote,
                    !.last = Call("stop", wrote, "Ok",
                                  ~vr.stdin_writer \/ write_ok, FALSE,
                                  vr.process) ]
    /\ vr' = VrAfterStop(vr)
    /\ lastIo' = Nothing
    /\ UNCHANGED <<lineVars, lock, files, mon, fg, tailVars>>

\* Mutant: a failed write reported as success.
SendResultSwallowed(io_ok) == "Ok"

\* lib.rs:666-669: a failed writeln! or flush is returned as Err.
SendResult(io_ok) == IF io_ok THEN "Ok" ELSE "Err"

\* send_vr_command: nothing without a writer; else one line written and
\* flushed.
SidecarSend ==
    /\ vr.stdin_writer => Len(sidecar.wire) < MaxWire
    /\ \E cmd \in SentCommands, write_ok \in BOOLEAN :
           IF ~vr.stdin_writer
           THEN sidecar' = [ sidecar EXCEPT
                   !.last = Call("send", <<>>, "Ok", TRUE, FALSE, FALSE) ]
           ELSE LET wrote == IF write_ok THEN <<SendLine(cmd)>> ELSE <<>>
                IN sidecar' =
                     [ sidecar EXCEPT
                         !.wire = @ \o wrote,
                         !.last = Call("send", wrote, SendResult(write_ok),
                                       write_ok, FALSE, FALSE) ]
    /\ vr' = vr
    /\ lastIo' = Nothing
    /\ UNCHANGED <<lineVars, lock, files, mon, fg, tailVars>>

\* The child exits by itself; the supervisor keeps its handle.
SidecarExit ==
    /\ sidecar.alive
    /\ sidecar' = [sidecar EXCEPT !.alive = FALSE]
    /\ lastIo' = Nothing
    /\ UNCHANGED <<lineVars, lock, vr, files, mon, fg, tailVars>>

NextSidecar ==
    \/ SidecarStart
    \/ SidecarStop
    \/ SidecarSend
    \/ SidecarExit

SpecSidecar == Init /\ [][NextSidecar]_vars

(***************************************************************************)
(* Properties.                                                             *)
(***************************************************************************)
\* The last n elements of a sequence, in order.
LastN(seq, n) ==
    IF Len(seq) <= n THEN seq ELSE SubSeq(seq, Len(seq) - n + 1, Len(seq))

\* A counter of a round type's bucket; 0 while the bucket does not exist.
Cnt(stats, rt, field) ==
    IF rt \in DOMAIN stats.round_types THEN stats.round_types[rt][field] ELSE 0

\* From old to new, the global counter `field` and the counter `field` of
\* round type rt went up by one, and no other counter changed.
TalliedOnce(old, new, field, rt) ==
    LET other == IF field = "deaths" THEN "survivals" ELSE "deaths"
    IN /\ new[field] = old[field] + 1
       /\ new[other] = old[other]
       /\ new.total_rounds = old.total_rounds
       /\ DOMAIN old.round_types \subseteq DOMAIN new.round_types
       /\ rt \in DOMAIN new.round_types
       /\ \A t \in DOMAIN new.round_types :
              /\ Cnt(new, t, field)
                     = Cnt(old, t, field) + (IF t = rt THEN 1 ELSE 0)
              /\ Cnt(new, t, other) = Cnt(old, t, other)

\* The last line closed a round in the way `by`, the round then having the
\* death status `death`.
Closed(c, by, death) ==
    c # Nothing /\ c[1].by = by /\ c[1].round.death = death

\* C1: the history never holds more than MAX_HISTORY entries, and it holds
\* exactly the most recently appended entries, in the order they were
\* appended.
C1_HistoryIsLatestAppended ==
    /\ Len(state.data.history) <= MAX_HISTORY
    /\ state.data.history = LastN(appended, MAX_HISTORY)

\* More entries were appended than the history holds: the oldest was evicted.
C1_Witness ==
    /\ Len(appended) > MAX_HISTORY
    /\ Len(state.data.history) = MAX_HISTORY
    /\ state.data.history[1] = appended[Len(appended) - MAX_HISTORY + 1]

\* C2: a round-end signal evaluated while a death signal of the round stands
\* (no reborn, respawn or round-start since) adds one to stats.deaths and
\* one to the deaths of the tracked round type ("Unknown" when none is
\* tracked), and changes no other counter.
C2_DeathTalliedOnce ==
    [][ Closed(closed', "round_end", "dead")
        => TalliedOnce(state.data.stats, state'.data.stats, "deaths",
                       UnwrapOr(closed'[1].round.round_type, "Unknown")) ]_vars

\* The scenario: round-start(Facility, Classic), killers, death, round-end
\* from zeroed stats.
C2_Witness ==
    /\ Closed(closed, "round_end", "dead")
    /\ closed[1].round.started
    /\ closed[1].round.stats_before = Some(RoundStatsDefault)
    /\ state.data.stats =
           [ total_rounds |-> 0, survivals |-> 0, deaths |-> 1,
             round_types |-> ("Classic" :> [survivals |-> 0, deaths |-> 1]) ]
    /\ state.current_round = CurrentRoundInfoDefault

\* C3: a round-end signal evaluated after a reborn signal that followed a
\* death signal of the round (no death since) adds one to stats.survivals
\* and one to the survivals of the tracked round type, and changes no deaths
\* counter.
C3_RebornTalliedAsSurvival ==
    [][ Closed(closed', "round_end", "reborn")
        => TalliedOnce(state.data.stats, state'.data.stats, "survivals",
                       UnwrapOr(closed'[1].round.round_type, "Unknown")) ]_vars

C3_Witness ==
    /\ Closed(closed, "round_end", "reborn")
    /\ closed[1].round.started
    /\ state.data.stats.survivals = 1
    /\ state.data.stats.deaths = 0

\* The last line voided (respawn, no round-end) a started round whose death
\* signal stood.
VoidedAfterDeath(c) == Closed(c, "respawn", "dead") /\ c[1].round.started

\* C4, as claimed: after the respawn the whole RoundStats value equals its
\* value before the round's round-start line.
C4_StatsAsBeforeRoundStart ==
    [][ VoidedAfterDeath(closed')
        => state'.data.stats = closed'[1].round.stats_before[1] ]_vars

\* C4, amended: after the respawn the RoundStats value equals its value
\* before the round's round-start line but for the bucket of the round's
\* type, which exists (zeroed if the round-start line created it); no
\* counter differs.
C4_StatsAsBeforeButBucket ==
    [][ VoidedAfterDeath(closed')
        => LET before == closed'[1].round.stats_before[1]
               rt == closed'[1].round.round_type
           IN /\ state'.data.stats =
                     [before EXCEPT !.round_types = EntryOrDefault(@, rt)]
              /\ \A t \in DOMAIN state'.data.stats.round_types, 
                    f \in {"survivals", "deaths"} :
                     Cnt(state'.data.stats, t, f) = Cnt(before, t, f) ]_vars

\* A round of a type not seen before was voided after a death.
C4_Witness ==
    /\ VoidedAfterDeath(closed)
    /\ closed[1].round.round_type
           \notin DOMAIN closed[1].round.stats_before[1].round_types
    /\ ~state.current_round.is_active

\* C8: CurrentRoundInfo.killers never has more than 3 elements and never
\* holds the id 0.
C8_KillersNonZeroAtMostThree ==
    /\ Len(state.current_round.killers) <= 3
    /\ \A i \in 1..Len(state.current_round.killers) :
           state.current_round.killers[i] # 0

\* The line "Killers have been set - 3 0 7" was stored as [3, 7].
C8_Witness == state.current_round.killers = <<3, 7>>

\* C5, as claimed: in a run of consecutive marker lines over one latest
\* code, which at the run's first line differed from the last copied code,
\* the clipboard write has been performed exactly once from the first line
\* on.
C5_ExactlyOnceFromFirstLine == run.code # None /\ run.fresh => run.writes = 1

\* C5, amended: in a run of consecutive marker lines over one latest code
\* the code is copied to the clipboard at most once; the clipboard is tried
\* by exactly the marker lines whose latest code differs from the last
\* copied code (the write is made if the clipboard can be opened); and a
\* successful write puts the latest code on the clipboard and makes it the
\* last copied code, so a further write needs a different latest code.
C5_AtMostOncePerRun ==
    [][ /\ run'.copies <= 1
        /\ (lastClip' # "none")
               <=> (run'.code # None /\ run'.code # state.last_copied_code)
        /\ lastClip' = "ok" => /\ state'.last_copied_code = run'.code
                               /\ LatestCode(state') = run'.code
                               /\ clipboard' = run'.code ]_vars

\* A second marker line of a run wrote nothing: the first one had.
C5_Witness ==
    /\ run.code # None
    /\ run.fresh
    /\ run.writes = 1
    /\ run.copies = 1
    /\ lastClip = "none"
    /\ state.last_copied_code = run.code
    /\ clipboard = run.code

\* C6: a line whose clipboard write failed (the clipboard could not be
\* opened, or set_text returned an error) leaves last_copied_code as it was.
C6_FailedCopyNotRecorded ==
    [][ lastClip' \in {"unavailable", "set_err"}
        => state'.last_copied_code = state.last_copied_code ]_vars

\* The terror names an entry carries.
NamesOf(e) == IF e.terror_names = Nothing THEN <<>> ELSE e.terror_names[1]

\* C7: a code line appends exactly one CodeEntry, with the captured token
\* and the round type tracked once the line's other signals are applied;
\* with a round active then, save_code becomes the code and the entry has
\* one terror name per killer id and the English label of the round type;
\* with none active, CurrentRoundInfo stays as those signals left it and the
\* entry has neither names nor label.
C7_CodeCapture ==
    [][ captured' # Nothing
        => LET c == captured'[1]
               h == state'.data.history
               e == h[Len(h)]
               k == c.current_round.killers
           IN /\ h = LastN(Append(state.data.history, e), MAX_HISTORY)
              /\ e.code = c.code
              /\ e.round_type = c.current_round_type
              /\ IF c.current_round.is_active
                 THEN /\ state'.current_round =
                             [c.current_round EXCEPT !.save_code = c.code]
                      /\ NamesOf(e) =
                             [ i \in 1..Len(k) |->
                                 TerrorName(k[i], c.current_round_type) ]
                      /\ e.round_type_english =
                             Some(round_type_to_english(c.current_round_type))
                 ELSE /\ state'.current_round = c.current_round
                      /\ e.terror_names = Nothing
                      /\ e.round_type_english = Nothing ]_vars

\* The scenario: "2024-01-01 20:00:00 [START]12_34_56[END]" in an active
\* Classic round with killers [3, 7].
C7_Witness ==
    /\ captured # Nothing
    /\ captured[1].current_round.is_active
    /\ state.current_round.save_code = "12_34_56"
    /\ state.current_round.killers = <<3, 7>>
    /\ state.data.history[Len(state.data.history)] =
           [ code |-> "12_34_56",
             timestamp |-> <<"2024-01-01", "20:00:00">>,
             round_type |-> "Classic",
             terror_names |-> Some(<<TerrorName(3, "Classic"),
                                     TerrorName(7, "Classic")>>),
             round_type_english |-> Some(round_type_to_english("Classic")) ]

\* The I/O that C9 names: file persistence, event publication and the
\* sidecar's start, stop and send.
GuardedIo ==
    {"persist_data", "persist_settings", "emit", "sidecar_start",
     "sidecar_stop", "sidecar_send"}

\* C9: no thread performs file persistence, publishes a UI event or starts,
\* stops or sends to the sidecar while it holds the state lock.
C9_NoIoUnderStateLock ==
    lastIo # Nothing /\ lastIo[1].op \in GuardedIo => ~lastIo[1].locked

\* The polling loop has persisted AppData with the lock free, after a tick
\* that held it.
C9_Witness ==
    /\ lastIo # Nothing
    /\ lastIo[1].op = "persist_data"
    /\ lastIo[1].by = "monitor"
    /\ lock = "free"
    /\ files.data = Some(state.data)
    /\ state.data.stats.survivals + state.data.stats.deaths > 0

\* C10: the clipboard is never accessed by a thread that holds the state
\* lock.
C10_NoClipboardUnderStateLock ==
    lastIo # Nothing /\ lastIo[1].op = "clipboard" => ~lastIo[1].locked

\* C20: a round-end line that arrives after a respawn signal voided a round,
\* with no round-start signal since (none on the line either), leaves every
\* stats counter as it was.
C20_VoidedRoundNotCredited ==
    [][ /\ round.voided
        /\ closed' # Nothing
        /\ closed'[1].by = "round_end"
        /\ ~closed'[1].round.started
        => state'.data.stats = state.data.stats ]_vars

\* The bytes a step fed.
NewlyFed(old, new) == SubSeq(new.fed, Len(old.fed) + 1, Len(new.fed))

\* Every byte the step fed was written after the last switch of file.
FedOnlyNewBytes(old, new) ==
    \A i \in 1..Len(NewlyFed(old, new)) :
        NewlyFed(old, new)[i][2] > new.at_switch

\* C11, as claimed: no byte the tracked file held when the monitor switched
\* to it is fed, whatever the switch (a failed stat included).
C11_NoByteFromBeforeSwitch == [][FedOnlyNewBytes(tail, tail')]_vars

\* C11, amended: no byte the tracked file held when the monitor switched to
\* it is fed, for every switch whose stat of the file succeeded.
C11_NoByteFromBeforeStatedSwitch ==
    [][~tail'.stat_failed => FedOnlyNewBytes(tail, tail')]_vars

\* The monitor switched to a file that held bytes, stat'ed it, and fed what
\* was written afterwards.
C11_Witness ==
    /\ ~tail.stat_failed
    /\ tail.at_switch > 0
    /\ tail.since = <<<<state.last_log_path, tail.at_switch + 1>>>>
    /\ Len(tail.fed) > 1

\* C12: while the tracked path is unchanged, what has been fed since the
\* switch is the file's bytes from the switch's offset to last_offset, each
\* once and in file order; a successful read leaves last_offset at the end
\* of the file as read; last_offset never decreases.
C12_EveryByteOnceInOrder ==
    /\ [](state.last_log_path # None
            => /\ tail.since = ReadFrom(state.last_log_path, tail.start,
                                        state.last_offset)
               /\ tail.start <= state.last_offset
               /\ state.last_offset <= logs.len[state.last_log_path])
    /\ [][ /\ state'.last_log_path = state.last_log_path
              => state'.last_offset >= state.last_offset
           /\ (/\ mon.pc = "open"
               /\ mon'.pc = "sleep"
               /\ logs.fault \notin {"open", "read"})
              => state'.last_offset = logs.len[state.last_log_path] ]_vars

\* Two ticks read the two bytes appended to the tracked file.
C12_Witness ==
    /\ tail.reads = 2
    /\ tail.since = <<<<state.last_log_path, 1>>, <<state.last_log_path, 2>>>>
    /\ state.last_offset = 2

\* Byte i of file f lies past the tracked offset of the tracked file.
Unread(f, i) ==
    /\ state.last_log_path = f
    /\ state.last_offset < i
    /\ i <= logs.len[f]

\* Byte i of file f has been fed.
Fed(f, i) == \E k \in 1..Len(tail.fed) : tail.fed[k] = <<f, i>>

\* C19: an I/O failure in a tick neither ends the loop nor leaves the state
\* lock held (the loop comes back to its top again and again, and holds
\* the lock only between taking it and the read), and once I/O works again
\* every byte appended past the tracked offset is eventually fed, unless
\* the monitor switches to another file first.
C19_FailedTickRetried ==
    /\ [](mon.pc \in {"top", "find", "acquire", "sleep"} => lock = "free")
    /\ []<>(mon.pc = "top")
    /\ \A f \in LogFiles, i \in 1..MaxBytes :
           <>[](logs.fault = "none")
               => (Unread(f, i) ~> (Fed(f, i) \/ state.last_log_path # f))

\* A tick failed for I/O and a later one read the bytes, with the lock free
\* afterwards.
C19_Witness ==
    /\ tail.retried
    /\ logs.faults > 0
    /\ logs.fault = "none"
    /\ lock = "free"
    /\ mon.pc = "sleep"
    /\ state.last_offset = logs.len[state.last_log_path]

\* The supervisor's last call was `op`.
LastCall(op) == sidecar.last # Nothing /\ sidecar.last[1].op = op

\* The sidecar processes running.
Running == sidecar.orphans + B2N(sidecar.alive)

\* C13: Start on a running supervisor spawns nothing, leaves VrOverlayState
\* as it was and returns Ok; and whatever the order of Start, Stop and Send
\* calls, at most one sidecar process runs, the one the supervisor holds.
C13_StartIdempotentOneChild ==
    /\ LastCall("start") /\ sidecar.last[1].before.process
          => /\ vr = sidecar.last[1].before
             /\ ~sidecar.last[1].spawned
             /\ sidecar.last[1].result = "Ok"
    /\ Running <= 1
    /\ sidecar.alive => vr.process

\* Start was called on a running supervisor that had spawned once.
C13_Witness ==
    /\ LastCall("start")
    /\ sidecar.last[1].before.process
    /\ sidecar.alive
    /\ sidecar.spawns = 1

\* C14: after Stop the supervisor holds neither child nor writer and no
\* child of it runs, whether or not Quit could be written and whether or
\* not the child had exited; Stop on a stopped supervisor writes nothing and
\* kills nothing.
C14_StopClears ==
    LastCall("stop")
        => /\ vr = VrOverlayStateDefault
           /\ ~sidecar.alive
           /\ sidecar.last[1].result = "Ok"
           /\ ~sidecar.last[1].before.process
                 => /\ sidecar.last[1].wrote = <<>>
                    /\ ~sidecar.last[1].killed

\* Stop on a running supervisor whose child had exited and whose Quit could
\* not be written.
C14_Witness ==
    /\ LastCall("stop")
    /\ sidecar.last[1].before.process
    /\ ~sidecar.last[1].alive_before
    /\ ~sidecar.last[1].io_ok
    /\ vr = VrOverlayStateDefault

\* C15: Send leaves VrOverlayState as it was; without a writer it writes
\* nothing and returns Ok; with a writer a failed write or flush returns
\* Err.
C15_SendKeepsSupervisor ==
    LastCall("send")
        => /\ vr = sidecar.last[1].before
           /\ ~sidecar.last[1].before.stdin_writer
                 => /\ sidecar.last[1].wrote = <<>>
                    /\ sidecar.last[1].result = "Ok"
           /\ sidecar.last[1].before.stdin_writer /\ ~sidecar.last[1].io_ok
                 => sidecar.last[1].result = "Err"

\* A Send failed on a running supervisor, which still holds child and
\* writer.
C15_Witness ==
    /\ LastCall("send")
    /\ ~sidecar.last[1].io_ok
    /\ sidecar.last[1].result = "Err"
    /\ vr = [process |-> TRUE, stdin_writer |-> TRUE]

\* C16: every line written to a sidecar's standard input is the prefix
\* "b64:" followed by the base64 of the serialized command.
C16_EveryLineFramed ==
    \A i \in 1..Len(sidecar.wire) :
        /\ sidecar.wire[i].prefix = "b64:"
        /\ sidecar.wire[i].body[1] = "base64"

\* ---- sidecar commands of a tick ----

\* The tick has run its sends: it copied the state out with the overlay
\* enabled and reached the sleep, and the sidecar has a writer.
TickSendsDone ==
    /\ mon.pc = "sleep"
    /\ mon.copy # Nothing
    /\ mon.copy[1].vr_enabled
    /\ vr.stdin_writer

SentInTick(type) == \E i \in 1..Len(mon.sent) : mon.sent[i] = type

\* C17: with the overlay enabled, a tick sends UpdateTerrors only when a
\* killers-set signal of that tick made the killers list non-empty, and it
\* sends Clear in exactly the ticks in which a respawn or a round-end closed
\* a round.
C17_UpdateOnlyOnKillersSet ==
    TickSendsDone =>
        /\ SentInTick("update_terrors") => mon.killers_set
        /\ SentInTick("clear") <=> mon.round_closed

\* C18: the last display command of a tick reflects the state after the
\* tick's last line: UpdateTerrors when a round is active with killers,
\* Clear when no round is active.
C18_LastCommandReflectsFinalState ==
    (TickSendsDone /\ mon.sent # <<>>) =>
        LET final == mon.copy[1].snapshot.current_round
            last == mon.sent[Len(mon.sent)]
        IN  /\ (final.is_active /\ final.killers # <<>>) => last = "update_terrors"
            /\ ~final.is_active => last = "clear"

\* ---- round-start over a round in progress ----

\* C21: a line whose only signal is round-start, processed while a round is
\* active, replaces CurrentRoundInfo by the new round (active, the captured
\* map and type, no killers, not dead, no save code), tracks the new type,
\* and leaves the stats as they were but for the bucket of the new type,
\* which exists afterwards; the abandoned round is tallied nowhere.
C21_RoundStartReplacesActiveRound ==
    [][ (round'.restart # Nothing /\ round'.restart[1].was_active)
        => LET caps == round'.restart[1].caps
           IN /\ state'.current_round =
                     [ is_active  |-> TRUE,
                       map_name   |-> caps.map_name,
                       round_type |-> caps.round_type,
                       killers    |-> <<>>,
                       is_dead    |-> FALSE,
                       save_code  |-> None ]
              /\ state'.current_round_type = caps.round_type
              /\ state'.data.stats =
                     [ state.data.stats EXCEPT
                         !.round_types = EntryOrDefault(@, caps.round_type) ]
              /\ \A t \in DOMAIN state'.data.stats.round_types,
                    f \in {"survivals", "deaths"} :
                     Cnt(state'.data.stats, t, f) = Cnt(state.data.stats, t, f)
              /\ state'.data.history = state.data.history ]_vars

\* A round of one type was abandoned for a round of the other type: both
\* buckets exist and nothing was tallied.
C21_Witness ==
    /\ round.restart # Nothing
    /\ round.restart[1].was_active
    /\ state.current_round.round_type = "Bloodbath"
    /\ DOMAIN state.data.stats.round_types = {"Classic", "Bloodbath"}
    /\ state.data.stats.survivals + state.data.stats.deaths = 0

\* ---- the round record while no round is active ----

\* C22: whenever no round is active, CurrentRoundInfo is the empty value (no
\* map, no round type, no killers, not dead, no save code).
C22_InactiveRoundIsEmpty ==
    ~state.current_round.is_active
        => state.current_round = CurrentRoundInfoDefault

\* ---- snapshots read during a tick ----

\* The step in which get_state copies its snapshot.
GetStateStep == fg.pc = "idle" /\ fg'.pc = "return" /\ fg'.cmd = "get_state"

\* C23: get_state never reads the state between the first and the last line
\* of a tick: when it copies its snapshot the polling loop is not in its
\* line loop, and the history, stats and current round of the snapshot are
\* those the state has at that moment, before or after all lines of a tick.
C23_SnapshotNotFromMidTick ==
    [][ GetStateStep
        => /\ mon.pc # "lines"
           /\ lock # "monitor"
           /\ fg'.copy[1].history = state.data.history
           /\ fg'.copy[1].stats = state.data.stats
           /\ fg'.copy[1].current_round = state.current_round ]_vars

\* get_state ran while a tick was between its copy-out and its sleep, and
\* saw the round that the tick's lines started.
C23_Witness ==
    /\ fg.cmd = "get_state"
    /\ fg.pc = "return"
    /\ mon.pc = "persist"
    /\ fg.copy[1].current_round.is_active
    /\ fg.copy[1].current_round = mon.copy[1].snapshot.current_round

\* ---- what a tick persists and publishes ----

\* The tick is over: the loop is at its sleep.
TickOver == mon.pc = "sleep"

\* C24: a tick whose lines changed AppData calls persist_data once and
\* publishes state_updated once, both from the copy taken with the guard in
\* hand after the last line, so that the history and stats handed to
\* persist_data are those of the published snapshot and of the state; a tick
\* in which no line matched a pattern persists and publishes nothing.
C24_ChangedTickPersistsAndPublishesOnce ==
    TickOver =>
        /\ mon.data_changed =>
               /\ Len(mon.outputs) = 2
               /\ mon.outputs[1].op = "persist_data"
               /\ mon.outputs[2].op = "state_updated"
               /\ mon.outputs[1].history = mon.outputs[2].history
               /\ mon.outputs[1].stats = mon.outputs[2].stats
               /\ mon.outputs[1].history = state.data.history
               /\ mon.outputs[1].stats = state.data.stats
               /\ mon.copied_by = "monitor"
        /\ ~mon.matched => (mon.outputs = <<>> /\ mon.copy = Nothing)

\* A tick of several lines appended a code to the history and tallied a
\* round, and persisted and published the result.
C24_Witness ==
    /\ TickOver
    /\ mon.data_changed
    /\ Len(mon.outputs) = 2
    /\ mon.outputs[2].history # <<>>
    /\ mon.outputs[2].stats.survivals = 1

\* ---- the state lock and the sidecar lock ----

\* start_vr_overlay, stop_vr_overlay and send_vr_command hold the sidecar
\* lock for their whole body and nowhere else is it taken.
SidecarLockedIo == {"sidecar_start", "sidecar_stop", "sidecar_send"}

\* C25: no thread holds the state lock and the sidecar lock together: a
\* thread that is about to call into the sidecar supervisor does not hold
\* the state lock, and neither did the thread whose call just took the
\* sidecar lock; so a thread holding one lock never waits for the other.
C25_NeverBothLocks ==
    /\ fg.pc \in {"vr_start", "vr_send", "vr_stop"} => lock # "fg"
    /\ mon.pc \in {"vr_update", "vr_clear"} => lock # "monitor"
    /\ (lastIo # Nothing /\ lastIo[1].op \in SidecarLockedIo)
           => ~lastIo[1].locked

\* A foreground command sent to the sidecar while the polling loop held the
\* state lock.
C25_Witness ==
    /\ lastIo # Nothing
    /\ lastIo[1].op = "sidecar_send"
    /\ lastIo[1].by = "fg"
    /\ lock = "monitor"

\* ---- child handle and writer ----

\* C26: between the calls of Start, Stop and Send the supervisor holds the
\* child handle and the stdin writer together or neither of them, and a
\* Start that failed (binary not found, spawn error) leaves it with neither.
C26_HandleAndWriterTogether ==
    /\ vr.process <=> vr.stdin_writer
    /\ (LastCall("start") /\ sidecar.last[1].result = "Err")
           => (~vr.process /\ ~vr.stdin_writer /\ ~sidecar.alive)

\* Start failed on a supervisor that had run a child and stopped it.
C26_Witness ==
    /\ LastCall("start")
    /\ sidecar.last[1].result = "Err"
    /\ sidecar.spawns = 1
    /\ ~vr.process

\* ---- enabling the overlay when the sidecar cannot start ----

\* The step in which set_vr_overlay_enabled(true) returns the error of
\* start_vr_overlay: the command leaves its call of Start and the
\* supervisor holds no child.
StartFailedStep ==
    /\ fg.pc = "vr_start"
    /\ fg'.pc = "idle"
    /\ ~vr'.process

\* C27: when set_vr_overlay_enabled(true) returns an error because Start
\* failed, vr_overlay_enabled is not true afterwards, in the state or in the
\* persisted settings.
C27_FailedStartLeavesOverlayDisabled ==
    [][ StartFailedStep
        => /\ ~state'.settings.vr_overlay_enabled
           /\ files'.settings # Nothing
                  => ~files'.settings[1].vr_overlay_enabled ]_vars

\* ---- the tracked round type ----

\* C28: after every line, the round type tracked outside CurrentRoundInfo
\* equals CurrentRoundInfo.round_type.
C28_TrackedTypeIsRoundType ==
    state.current_round_type = state.current_round.round_type

\* Both were set by the backfill of a killers-set line, no round being
\* active.
C28_Witness ==
    /\ ~state.current_round.is_active
    /\ state.current_round_type = "Bloodbath"
    /\ state.current_round.round_type = "Bloodbath"
    /\ state.current_round.killers # <<>>

\* ---- global counters and buckets ----

\* The sum of a counter over the buckets `keys`.
RECURSIVE SumCnt(_, _, _)
SumCnt(stats, keys, field) ==
    IF keys = {} THEN 0
    ELSE LET k == CHOOSE x \in keys : TRUE
         IN stats.round_types[k][field] + SumCnt(stats, keys \ {k}, field)

\* The global counters are the sums of the buckets' counters.
GlobalIsSum(stats) ==
    \A f \in {"survivals", "deaths"} :
        stats[f] = SumCnt(stats, DOMAIN stats.round_types, f)

\* From old to new no counter went down and no bucket disappeared.
NoCounterLost(old, new) ==
    /\ new.survivals >= old.survivals
    /\ new.deaths >= old.deaths
    /\ DOMAIN old.round_types \subseteq DOMAIN new.round_types
    /\ \A t \in DOMAIN old.round_types, f \in {"survivals", "deaths"} :
           new.round_types[t][f] >= old.round_types[t][f]

\* C29: from zeroed stats, after any lines, stats.survivals and stats.deaths
\* are the sums of the buckets' survivals and deaths, no counter ever
\* decreases and no bucket is ever removed.
C29_GlobalCountersAreBucketSums ==
    /\ [](GlobalIsSum(state.data.stats))
    /\ [][NoCounterLost(state.data.stats, state'.data.stats)]_vars

\* A round-end with no tracked type and a round-end of a started round were
\* tallied, one as a survival and one as a death.
C29_Witness ==
    /\ state.data.stats.survivals = 1
    /\ state.data.stats.deaths = 1
    /\ "Unknown" \in DOMAIN state.data.stats.round_types
    /\ \E t \in RoundTypes :
           /\ t \in DOMAIN state.data.stats.round_types
           /\ state.data.stats.round_types[t].survivals
                  + state.data.stats.round_types[t].deaths = 1

\* ---- the UpdateTerrors of set_vr_overlay_enabled ----

\* The step in which set_vr_overlay_enabled writes its UpdateTerrors, built
\* from the round it copied, to the sidecar.
EnableSendsRoundStep ==
    /\ fg.pc = "vr_send"
    /\ fg.cmd = "set_vr_overlay_enabled"
    /\ fg'.pc = "idle"
    /\ vr.stdin_writer

\* C30: the UpdateTerrors that set_vr_overlay_enabled sends describes the
\* round as it is when it is sent: with no tick in progress, the round the
\* command copied is still active with the same killers, not ended or voided
\* by the polling loop since the copy.
C30_EnableSendsCurrentRound ==
    [][ (EnableSendsRoundStep /\ lock # "monitor")
        => /\ state.current_round.is_active
           /\ state.current_round.killers = fg.copy[1].current_round.killers
       ]_vars

\* ---- total_rounds ----

\* C31: no log line changes stats.total_rounds: it keeps the value it had
\* at startup, however many rounds are tallied.
C31_TotalRoundsNeverChanges ==
    [][state'.data.stats.total_rounds = state.data.stats.total_rounds]_vars

\* A survival and a death were tallied over a loaded total_rounds of 3.
C31_Witness ==
    /\ state.data.stats.total_rounds = 3
    /\ state.data.stats.survivals = 1
    /\ state.data.stats.deaths = 1

====
